---- MODULE Spec2Model ----
(***************************************************************************)
(* Material registry of the "Sistema de Controle de Materiais" frontend:   *)
(* the zustand store useMaterials (addMaterial, updateMaterial,            *)
(* deleteMaterial, conferirMaterial) and the page handlers that call it    *)
(* (Materiais: handleAddMaterial, handleEditMaterial,                      *)
(* handleUpdateMaterial, handleDeleteMaterial; QRScanner:                  *)
(* handleQRCodeDetected, simulateQRScan), with the session of useAuth, the *)
(* fetchMaterials call and the statistics of the Dashboard, the list       *)
(* filter of Materiais (filteredMaterials) and the controls of the         *)
(* QRScanner page; and two of the operation scripts of the repository,     *)
(* scripts/deploy-staging.sh and scripts/logs.sh.                          *)
(*                                                                         *)
(* Specifications: Spec (the page handlers drive the store), SpecStore     *)
(* (the store functions called directly), SpecList (the list filter as a   *)
(* function of its inputs), SpecScanner (the scanner page from its         *)
(* controls), SpecCamera (the steps of the scanner page up to the camera), *)
(* SpecAuth (login and logout of useAuth called directly), SpecDeploy (a   *)
(* run of deploy-staging.sh), SpecLogs (the argument parser of logs.sh).   *)
(*                                                                         *)
(* Representation.                                                         *)
(*  - A Material is a record. The optional property ultimaConferencia is   *)
(*    an optional field: "has no ultimaConferencia" is                     *)
(*    "ultimaConferencia" \notin DOMAIN m. The object spread               *)
(*    {...a, ...b} is  b @@ a  (the later properties win).                 *)
(*  - Date.now() is the variable clock. It is a millisecond count of about *)
(*    1.7e12 in the program; here it is rescaled (order kept) so that it   *)
(*    starts at 10, above the mock ids 1..3 and the mock dates 1..5.       *)
(*    Number.toString() and Date.toISOString() are injective, so an id or  *)
(*    a date is kept as the number it prints.                              *)
(*  - The template `QR_${n}_HASH_${h}` is injective in (n, h) (n has no    *)
(*    underscore), so a qrCode is the pair <<n, h>>.                       *)
(*  - Names are written without accents (Administracao, Escritorio TI).    *)
(***************************************************************************)
EXTENDS Integers, Sequences, FiniteSets, TLC

VARIABLES
    materials,        \* useMaterials().materials
    clock,            \* the value Date.now() returns
    editingMaterial,  \* Materiais: <<>> (null) or <<id>> of the row being edited
    isScanning,       \* QRScanner: isScanning
    selectedSetor,    \* QRScanner: selectedSetor
    selectedSala,     \* QRScanner: selectedSala
    cameraRequests,   \* QRScanner: number of getUserMedia calls not yet settled
    scanResult,       \* QRScanner: <<>> (null) or <<record>>
    toast,            \* the toast last shown by the scanner page
    user,             \* useAuth().user: <<>> (null) or <<record>>
    loading,          \* useMaterials().loading
    fetching,         \* number of fetchMaterials calls waiting on their timer
    searchTerm,       \* Materiais: searchTerm, a sequence of characters
    filterStatus,     \* Materiais: filterStatus
    last,             \* history: the last handler that ran and its arguments
    ops,              \* history: number of steps taken so far
    isAuthenticated,  \* useAuth().isAuthenticated
    streamRef,        \* QRScanner: streamRef.current, <<>> (null) or <<stream>>
    liveStreams,      \* the camera streams acquired whose tracks were not stopped
    step,             \* deploy-staging.sh: the function main is about to call
    exitStatus,       \* deploy-staging.sh: -1 while it runs, then its exit status
    executed,         \* deploy-staging.sh: history of the run
    attempt,          \* deploy-staging.sh: attempt of health_check
    SLACK_WEBHOOK,    \* deploy-staging.sh: the environment variable
    argv,             \* logs.sh: the positional parameters not yet shifted away
    invocation,       \* logs.sh: history, the parameters the script was started with
    SERVICE,          \* logs.sh
    ENVIRONMENT,      \* logs.sh
    FOLLOW,           \* logs.sh
    TAIL_LINES,       \* logs.sh
    GREP_FILTER,      \* logs.sh
    COMPOSE_FILE,     \* logs.sh
    logsStep,         \* logs.sh: the part of the script that runs next
    logsStatus,       \* logs.sh: -1 while it runs, then its exit status
    logsOutput        \* logs.sh: the message it ended with, if any

\* The state of the web application.
appVars == <<materials, clock, editingMaterial, isScanning, selectedSetor, selectedSala,
             cameraRequests, scanResult, toast,
             user, isAuthenticated, loading, fetching, searchTerm, filterStatus, last, ops,
             streamRef, liveStreams>>

\* The state of a run of scripts/deploy-staging.sh.
deployVars == <<step, exitStatus, executed, attempt, SLACK_WEBHOOK>>

\* The state of a run of scripts/logs.sh.
logsVars == <<argv, invocation, SERVICE, ENVIRONMENT, FOLLOW, TAIL_LINES, GREP_FILTER,
              COMPOSE_FILE, logsStep, logsStatus, logsOutput>>

scriptVars == <<deployVars, logsVars>>

vars == <<appVars, scriptVars>>

\* The camera streams of the page QRScanner.
streamVars == <<streamRef, liveStreams>>

\* The part of the state that belongs to useAuth and to fetchMaterials.
sessionVars == <<user, isAuthenticated, loading, fetching>>

\* The search box and the status filter of the list of the page Materiais.
listVars == <<searchTerm, filterStatus>>

\* The two selects of the page QRScanner and its pending camera requests.
scannerVars == <<selectedSetor, selectedSala, cameraRequests>>

(***************************************************************************)
(* Bounds of the exploration.                                              *)
(***************************************************************************)
MaxOps == 4

(***************************************************************************)
(* Reference data and mock registry.                                       *)
(***************************************************************************)
mockSetores ==
    << [id |-> 1, nome |-> "Administracao", salas |-> <<"Sala 101", "Sala 102", "Recepcao">>],
       [id |-> 2, nome |-> "Producao", salas |-> <<"Linha 1", "Linha 2", "Estoque">>],
       [id |-> 3, nome |-> "TI", salas |-> <<"Sala Servidores", "Sala Tecnica", "Escritorio TI">>],
       [id |-> 4, nome |-> "RH", salas |-> <<"Sala RH", "Sala Reuniao", "Arquivo">>] >>

mockMaterials ==
    << [id |-> 1, nome |-> "Computador Desktop Dell", bmp |-> "BMP001",
        setor |-> "TI", sala |-> "Escritorio TI", responsavel |-> "Joao Silva",
        qrCode |-> <<1, "ABC123">>, status |-> "conferido_correto",
        ultimaConferencia |-> [data |-> 4, setorEncontrado |-> "TI",
                               salaEncontrada |-> "Escritorio TI"],
        dataCadastro |-> 1],
       [id |-> 2, nome |-> "Monitor LG 24", bmp |-> "BMP002",
        setor |-> "Administracao", sala |-> "Sala 101", responsavel |-> "Maria Santos",
        qrCode |-> <<2, "DEF456">>, status |-> "conferido_outro_setor",
        ultimaConferencia |-> [data |-> 5, setorEncontrado |-> "TI",
                               salaEncontrada |-> "Sala Tecnica"],
        dataCadastro |-> 2],
       [id |-> 3, nome |-> "Impressora HP LaserJet", bmp |-> "BMP003",
        setor |-> "RH", sala |-> "Sala RH", responsavel |-> "Carlos Oliveira",
        qrCode |-> <<3, "GHI789">>, status |-> "nao_conferido",
        dataCadastro |-> 3] >>

mockQRCodes == { <<1, "ABC123">>, <<2, "DEF456">>, <<3, "GHI789">> }

Range(s) == { s[i] : i \in DOMAIN s }

getSalasDoSetor(setor) ==
    LET found == { i \in DOMAIN mockSetores : mockSetores[i].nome = setor }
    IN  IF found = {} THEN {} ELSE Range(mockSetores[CHOOSE i \in found : TRUE].salas)

hasConferencia(m) == "ultimaConferencia" \in DOMAIN m

NoToast == [title |-> "", description |-> <<>>, variant |-> ""]

(***************************************************************************)
(* The store: useMaterials.                                                *)
(***************************************************************************)

\* The record addMaterial builds: the payload's properties, then id, qrCode,
\* status and dataCadastro over them. The call reads the clock three times
\* in one synchronous step; the three reads are taken as one instant. rnd is
\* Math.random().toString(36).substr(2, 6).toUpperCase().
newMaterial(materialData, now, rnd) ==
    [id |-> now, qrCode |-> <<now, rnd>>, status |-> "nao_conferido",
     dataCadastro |-> now] @@ materialData

addMaterial(mats, materialData, now, rnd) ==
    Append(mats, newMaterial(materialData, now, rnd))

\* Mutant: an update that inserts the payload when no record has the id.
updateMaterial_upsert(mats, id, updates) ==
    IF \E i \in DOMAIN mats : mats[i].id = id
    THEN [i \in DOMAIN mats |-> IF mats[i].id = id THEN updates @@ mats[i] ELSE mats[i]]
    ELSE Append(mats, updates)

\* Mutant: an edited material has to be conferred again.
updateMaterial_resetsStatus(mats, id, updates) ==
    [i \in DOMAIN mats |->
        IF mats[i].id = id
        THEN [status |-> "nao_conferido"] @@ updates @@ mats[i]
        ELSE mats[i]]

updateMaterial(mats, id, updates) ==
    [i \in DOMAIN mats |-> IF mats[i].id = id THEN updates @@ mats[i] ELSE mats[i]]

\* Mutant: the filter keeps the records that match instead of the others.
deleteMaterial_keepsMatch(mats, id) == SelectSeq(mats, LAMBDA material : material.id = id)

deleteMaterial(mats, id) ==
    SelectSeq(mats, LAMBDA material : material.id # id)

\* materials.find(m => m.qrCode === qrCode): the index of the first match, 0 if none.
findByQrCode(mats, qrCode) ==
    LET hits == { i \in DOMAIN mats : mats[i].qrCode = qrCode }
    IN  IF hits = {} THEN 0 ELSE CHOOSE i \in hits : \A j \in hits : i <= j

\* Mutant: the observed location is compared with where the material was last
\* found, when it has been found before.
isCorrectLocation_vsLastFound(material, setor, sala) ==
    IF "ultimaConferencia" \in DOMAIN material
    THEN material.ultimaConferencia.setorEncontrado = setor
         /\ material.ultimaConferencia.salaEncontrada = sala
    ELSE material.setor = setor /\ material.sala = sala

isCorrectLocation(material, setor, sala) ==
    material.setor = setor /\ material.sala = sala

conferenciaStatus(material, setor, sala) ==
    IF isCorrectLocation(material, setor, sala)
    THEN "conferido_correto" ELSE "conferido_outro_setor"

\* Mutant: the scan writes the status and forgets the conference record.
conferido_statusOnly(m, status, setor, sala, now) ==
    [status |-> status] @@ m

\* Mutant: the scan also moves the material to where it was found.
conferido_relocating(m, status, setor, sala, now) ==
    [status |-> status, setor |-> setor, sala |-> sala,
     ultimaConferencia |-> [data |-> now, setorEncontrado |-> setor,
                            salaEncontrada |-> sala]] @@ m

\* What the scan writes over a record whose qrCode matches.
conferido(m, status, setor, sala, now) ==
    [status |-> status,
     ultimaConferencia |-> [data |-> now, setorEncontrado |-> setor,
                            salaEncontrada |-> sala]] @@ m

conferirMaterial(mats, qrCode, setor, sala, now) ==
    LET k == findByQrCode(mats, qrCode)
    IN  IF k = 0 THEN mats
        ELSE LET status == conferenciaStatus(mats[k], setor, sala)
             IN  [i \in DOMAIN mats |->
                    IF mats[i].qrCode = qrCode
                    THEN conferido(mats[i], status, setor, sala, now)
                    ELSE mats[i]]

\* The value the call hands back to its caller: the function has no return
\* statement, neither on the not-found path nor at its end.
conferirMaterialReturn(found) == IF found THEN "undefined" ELSE "undefined"

(***************************************************************************)
(* Inputs. The text fields take any string; the selects offer the sectors  *)
(* of the directory and, for the sector chosen, its rooms ("" while        *)
(* nothing is chosen).                                                     *)
(***************************************************************************)
NomeInputs == {"", "Notebook"}
BmpInputs == {"", "BMP001"}
ResponsavelInputs == {"Ana"}
SetorInputs == {"TI", "Administracao"}
SalaInputs == {"Escritorio TI", "Sala 101"}
ScannerSalaInputs == {"Escritorio TI", "Sala Tecnica", "Sala 101"}
RandomInputs == {"K3J2M1", "Z9Y8X7"}
UnknownQRCode == <<0, "NOCODE">>

\* The (setor, sala) pairs the two dependent selects can hold.
SelectableLocations ==
    { loc \in (SetorInputs \cup {""}) \X (SalaInputs \cup {""}) :
        loc[2] = "" \/ loc[2] \in getSalasDoSetor(loc[1]) }

\* QRScanner: the pairs with both selects set, which startScanning requires.
SelectedLocations ==
    { loc \in SetorInputs \X ScannerSalaInputs : loc[2] \in getSalasDoSetor(loc[1]) }

\* Materiais: the form state newMaterial. It is read only by the two submit
\* handlers and the operator can type any content before submitting, so its
\* content at the click is the handlers' input.
NewMaterialForms ==
    { [nome |-> n, bmp |-> b, setor |-> loc[1], sala |-> loc[2], responsavel |-> r] :
        n \in NomeInputs, b \in BmpInputs, loc \in SelectableLocations,
        r \in ResponsavelInputs }

QRCodeInputs(mats) == { mats[i].qrCode : i \in DOMAIN mats } \cup mockQRCodes \cup {UnknownQRCode}

(***************************************************************************)
(* History record of the last handler or store call.                       *)
(***************************************************************************)
\* again: the call is a scan and the call before it, whatever time passed in
\* between, was a scan with the same three arguments.
Call(op, accepted, found, id, qrCode, setor, sala, ret) ==
    [op |-> op, accepted |-> accepted, found |-> found, id |-> id,
     qrCode |-> qrCode, setor |-> setor, sala |-> sala, ret |-> ret,
     again |-> (op = "conferir" /\ last.op \in {"conferir", "tick"} /\ last.qrCode = qrCode
                /\ last.setor = setor /\ last.sala = sala)]

NoCall(op) == Call(op, FALSE, FALSE, 0, <<0, "">>, "", "", "")

hasId(mats, id) == \E i \in DOMAIN mats : mats[i].id = id

\* The user that login creates for the credentials admin / 123456.
AdminUser == [id |-> 1, login |-> "admin", nome |-> "Administrador", tipo |-> "admin"]

\* The state of the pages after construction.
InitPages ==
    /\ clock = 10
    /\ editingMaterial = <<>>
    /\ isScanning = FALSE
    /\ selectedSetor = ""
    /\ selectedSala = ""
    /\ cameraRequests = 0
    /\ streamRef = <<>>
    /\ liveStreams = {}
    /\ scanResult = <<>>
    /\ toast = NoToast
    /\ loading = FALSE
    /\ fetching = 0
    /\ searchTerm = <<>>
    /\ filterStatus = "all"
    /\ last = NoCall("init")
    /\ ops = 0

\* The state of the stores and of the pages after construction, but for the
\* session.
InitRegistry ==
    /\ materials = mockMaterials
    /\ InitPages

\* The pages render only for an authenticated user (they redirect to /login
\* otherwise): the session is the one login has stored, which the persist
\* middleware restores when the store is constructed.
InitApp ==
    /\ InitRegistry
    /\ user = <<AdminUser>>
    /\ isAuthenticated = TRUE

\* scripts/deploy-staging.sh at its first line. exitStatus is -1 while the
\* script has not exited.
DeployNotRun ==
    /\ step = "main"
    /\ exitStatus = -1
    /\ executed = <<>>
    /\ attempt = 0

\* scripts/logs.sh at its first line, started with the parameters args.
LogsStart(args) ==
    /\ argv = args
    /\ invocation = args
    /\ SERVICE = ""
    /\ ENVIRONMENT = ""
    /\ FOLLOW = ""
    /\ TAIL_LINES = ""
    /\ GREP_FILTER = ""
    /\ COMPOSE_FILE = ""
    /\ logsStep = "configure"
    /\ logsStatus = -1
    /\ logsOutput = ""

LogsNotRun == LogsStart(<<>>)

\* No script runs while the pages are used.
ScriptsNotRun ==
    /\ DeployNotRun
    /\ SLACK_WEBHOOK = ""
    /\ LogsNotRun

Init ==
    /\ InitApp
    /\ ScriptsNotRun

\* Time passes between two handler calls. The history keeps the arguments of
\* a scan through the passing of time.
Tick ==
    /\ ops < MaxOps
    /\ clock' = clock + 1
    /\ ops' = ops + 1
    /\ last' = IF last.op \in {"conferir", "tick"}
               THEN Call("tick", FALSE, FALSE, 0, last.qrCode, last.setor, last.sala, "")
               ELSE NoCall("tick")
    /\ UNCHANGED <<materials, editingMaterial, isScanning, scanResult, toast, sessionVars, listVars,
                   scannerVars, streamVars, scriptVars>>

(***************************************************************************)
(* Page Materiais. The page renders only for an authenticated user, and    *)
(* login creates only the admin user, so the delete button (admin only) is *)
(* there. Of editingMaterial the handlers read the truth value and the id, *)
(* so the id is what is kept. isAddDialogOpen and the reset of the form    *)
(* are view state no handler reads.                                        *)
(***************************************************************************)
\* Mutant: the validation forgets the room.
formIncomplete_withoutSala(form) == form.nome = "" \/ form.bmp = "" \/ form.setor = ""

formIncomplete(form) ==
    form.nome = "" \/ form.bmp = "" \/ form.setor = "" \/ form.sala = ""

\* The submit button runs handleAddMaterial only while editingMaterial is null.
HandleAddMaterial(form, rnd) ==
    /\ ops < MaxOps
    /\ isAuthenticated
    /\ editingMaterial = <<>>
    /\ \/ /\ formIncomplete(form)
          /\ UNCHANGED materials
       \/ /\ ~formIncomplete(form)
          /\ materials' = addMaterial(materials, [status |-> "nao_conferido"] @@ form,
                                      clock, rnd)
    /\ last' = IF formIncomplete(form)
               THEN NoCall("add")
               ELSE Call("add", TRUE, FALSE, clock, <<clock, rnd>>, "", "", "")
    /\ ops' = ops + 1
    /\ UNCHANGED <<clock, editingMaterial, isScanning, scanResult, toast, sessionVars, listVars,
                   scannerVars, streamVars, scriptVars>>

HandleEditMaterial(i) ==
    /\ ops < MaxOps
    /\ isAuthenticated
    /\ i \in DOMAIN materials
    /\ editingMaterial' = <<materials[i].id>>
    /\ ops' = ops + 1
    /\ last' = Call("edit", TRUE, TRUE, materials[i].id, <<0, "">>, "", "", "")
    /\ UNCHANGED <<materials, clock, isScanning, scanResult, toast, sessionVars, listVars,
                   scannerVars, streamVars, scriptVars>>

\* The submit button runs handleUpdateMaterial while editingMaterial is set.
HandleUpdateMaterial(form) ==
    /\ ops < MaxOps
    /\ isAuthenticated
    /\ editingMaterial # <<>>
    /\ \/ /\ formIncomplete(form)
          /\ UNCHANGED <<materials, editingMaterial>>
       \/ /\ ~formIncomplete(form)
          /\ materials' = updateMaterial(materials, editingMaterial[1],
                              [nome |-> form.nome, bmp |-> form.bmp, setor |-> form.setor,
                               sala |-> form.sala, responsavel |-> form.responsavel])
          /\ editingMaterial' = <<>>
    /\ last' = Call("update", ~formIncomplete(form), hasId(materials, editingMaterial[1]),
                    editingMaterial[1], <<0, "">>, "", "", "")
    /\ ops' = ops + 1
    /\ UNCHANGED <<clock, isScanning, scanResult, toast, sessionVars, listVars,
                   scannerVars, streamVars, scriptVars>>

\* The delete button of row i; confirmed is the answer to confirm().
\* The delete button of a row is rendered only for user?.tipo === 'admin'.
deleteButtonShown == isAuthenticated /\ user[1].tipo = "admin"

HandleDeleteMaterial(i, confirmed) ==
    /\ ops < MaxOps
    /\ deleteButtonShown
    /\ i \in DOMAIN materials
    /\ \/ /\ ~confirmed
          /\ UNCHANGED materials
       \/ /\ confirmed
          /\ materials' = deleteMaterial(materials, materials[i].id)
    /\ last' = Call("delete", confirmed, TRUE, materials[i].id, <<0, "">>, "", "", "")
    /\ ops' = ops + 1
    /\ UNCHANGED <<clock, editingMaterial, isScanning, scanResult, toast, sessionVars, listVars,
                   scannerVars, streamVars, scriptVars>>

(***************************************************************************)
(* Page QRScanner. handleQRCodeDetected is the callback of the QR decoder: *)
(* it receives any decoded string, with the location held by the two       *)
(* selects. In Spec that location is an input of the step, any pair that   *)
(* startScanning lets through; the selects themselves and the start of a   *)
(* scanning session are followed in SpecScanner below. A camera stream is  *)
(* named by a number; liveStreams holds the streams getUserMedia has       *)
(* handed over whose tracks were not stopped.                              *)
(***************************************************************************)

\* What the operator is shown once handleQRCodeDetected has run: the return
\* value it got from the store, the scan result panel (scanResult) and the
\* toast. setScanResult({...}) is followed in the same handler by
\* stopScanning(), whose setScanResult(null) is the write that stays.
\* stopScanning: the streams still live once the tracks of the stream held by
\* streamRef, if any, are stopped.
stoppedTracks == IF streamRef # <<>> THEN liveStreams \ {streamRef[1]} ELSE liveStreams

scanToast(setor, sala) ==
    [title |-> "QR Code Lido!", description |-> <<"Material conferido em", setor, sala>>,
     variant |-> "default"]

scanOutcome(found, setor, sala) ==
    [ret |-> conferirMaterialReturn(found), scanResult |-> <<>>,
     toast |-> scanToast(setor, sala)]

HandleQRCodeDetected(qrCodeData, setor, sala) ==
    LET found == findByQrCode(materials, qrCodeData) # 0
        outcome == scanOutcome(found, setor, sala)
    IN  /\ ops < MaxOps
        /\ isAuthenticated
        /\ materials' = conferirMaterial(materials, qrCodeData, setor,
                                         sala, clock)
        /\ scanResult' = outcome.scanResult
        /\ toast' = outcome.toast
        /\ isScanning' = FALSE
        /\ liveStreams' = stoppedTracks
        /\ streamRef' = <<>>
        /\ last' = Call("conferir", TRUE, found, 0, qrCodeData, setor,
                        sala, outcome.ret)
        /\ ops' = ops + 1
        /\ UNCHANGED <<clock, editingMaterial, sessionVars, listVars,
                       scannerVars, scriptVars>>

SimulateQRScan(setor, sala) ==
    \E randomQR \in mockQRCodes : HandleQRCodeDetected(randomQR, setor, sala)

(***************************************************************************)
(* Page Dashboard: its mount effect calls fetchMaterials, which sets       *)
(* loading, waits for a one-second timer and clears loading. The effect    *)
(* runs on every mount of the page, so a call can start while another      *)
(* waits.                                                                  *)
(***************************************************************************)
FetchMaterials ==
    /\ ops < MaxOps
    /\ loading' = TRUE
    /\ fetching' = fetching + 1
    /\ last' = NoCall("fetch")
    /\ ops' = ops + 1
    /\ UNCHANGED <<materials, clock, editingMaterial, isScanning, scanResult, toast, user,
                   isAuthenticated, listVars, scannerVars, streamVars, scriptVars>>

FetchMaterialsResolved ==
    /\ ops < MaxOps
    /\ fetching > 0
    /\ loading' = FALSE
    /\ fetching' = fetching - 1
    /\ last' = NoCall("fetched")
    /\ ops' = ops + 1
    /\ UNCHANGED <<materials, clock, editingMaterial, isScanning, scanResult, toast, user,
                   isAuthenticated, listVars, scannerVars, streamVars, scriptVars>>

Next ==
    \/ Tick
    \/ FetchMaterials
    \/ FetchMaterialsResolved
    \/ \E form \in NewMaterialForms, rnd \in RandomInputs : HandleAddMaterial(form, rnd)
    \/ \E i \in DOMAIN materials : HandleEditMaterial(i)
    \/ \E form \in NewMaterialForms : HandleUpdateMaterial(form)
    \/ \E i \in DOMAIN materials, confirmed \in BOOLEAN : HandleDeleteMaterial(i, confirmed)
    \/ \E qr \in QRCodeInputs(materials), loc \in SelectedLocations :
          HandleQRCodeDetected(qr, loc[1], loc[2])
    \/ \E loc \in SelectedLocations : SimulateQRScan(loc[1], loc[2])

Spec == Init /\ [][Next]_vars

(***************************************************************************)
(* Page Dashboard: the statistics it computes from the registry at every   *)
(* render. Math.round is applied to a quotient that is not negative, where *)
(* it rounds a half up.                                                    *)
(***************************************************************************)
countStatus(mats, status) == Cardinality({ i \in DOMAIN mats : mats[i].status = status })

totalMaterials(mats) == Len(mats)
conferidosCorretos(mats) == countStatus(mats, "conferido_correto")
conferidosOutroSetor(mats) == countStatus(mats, "conferido_outro_setor")
naoConferidos(mats) == countStatus(mats, "nao_conferido")

\* Math.round(numerator / denominator)
round(numerator, denominator) == (2 * numerator + denominator) \div (2 * denominator)

percentualConferido(mats) ==
    IF totalMaterials(mats) > 0
    THEN round((conferidosCorretos(mats) + conferidosOutroSetor(mats)) * 100, totalMaterials(mats))
    ELSE 0

(***************************************************************************)
(* Page QRScanner, from its controls. The selects are disabled while       *)
(* isScanning; the start button is rendered while ~isScanning and enabled  *)
(* once both selects are set; the <video> element, the simulate button and *)
(* the stop button are rendered while isScanning. videoRef.current is the  *)
(* <video> element when it is rendered and null otherwise.                 *)
(***************************************************************************)
SetorNames == { mockSetores[i].nome : i \in DOMAIN mockSetores }

videoRefCurrent == IF isScanning THEN "video" ELSE "null"

cameraErrorToast ==
    [title |-> "Erro", description |-> <<"Nao foi possivel acessar a camera">>,
     variant |-> "destructive"]

SelectSetor(value) ==
    /\ ops < MaxOps
    /\ isAuthenticated
    /\ ~isScanning
    /\ selectedSetor' = value
    /\ selectedSala' = ""
    /\ last' = NoCall("selectSetor")
    /\ ops' = ops + 1
    /\ UNCHANGED <<materials, clock, editingMaterial, isScanning, cameraRequests, scanResult,
                   toast, sessionVars, listVars, streamVars, scriptVars>>

SelectSala(value) ==
    /\ ops < MaxOps
    /\ isAuthenticated
    /\ selectedSetor # "" /\ ~isScanning
    /\ value \in getSalasDoSetor(selectedSetor)
    /\ selectedSala' = value
    /\ last' = NoCall("selectSala")
    /\ ops' = ops + 1
    /\ UNCHANGED <<materials, clock, editingMaterial, isScanning, selectedSetor, cameraRequests,
                   scanResult, toast, sessionVars, listVars, streamVars, scriptVars>>

\* startScanning up to its await. The button is disabled unless both selects
\* are set, so the branch of the function that refuses an empty selection is
\* not taken from the page.
StartScanning ==
    /\ ops < MaxOps
    /\ isAuthenticated
    /\ ~isScanning
    /\ selectedSetor # "" /\ selectedSala # ""
    /\ cameraRequests' = cameraRequests + 1
    /\ last' = NoCall("startScanning")
    /\ ops' = ops + 1
    /\ UNCHANGED <<materials, clock, editingMaterial, isScanning, selectedSetor, selectedSala,
                   scanResult, toast, sessionVars, listVars, streamVars, scriptVars>>

\* startScanning after its await: the camera was granted, with the new
\* stream stream, or refused.
GetUserMediaSettled(granted, stream) ==
    /\ ops < MaxOps
    /\ cameraRequests > 0
    /\ cameraRequests' = cameraRequests - 1
    /\ IF granted
       THEN /\ liveStreams' = liveStreams \cup {stream}
            /\ isScanning' = (isScanning \/ videoRefCurrent # "null")
            /\ streamRef' = IF videoRefCurrent # "null" THEN <<stream>> ELSE streamRef
            /\ UNCHANGED toast
       ELSE /\ toast' = cameraErrorToast
            /\ UNCHANGED <<isScanning, streamVars>>
    /\ last' = Call("getUserMedia", granted, FALSE, 0, <<0, "">>, "", "", "")
    /\ ops' = ops + 1
    /\ UNCHANGED <<materials, clock, editingMaterial, selectedSetor, selectedSala, scanResult,
                   sessionVars, listVars, scriptVars>>

StopScanning ==
    /\ ops < MaxOps
    /\ isScanning
    /\ liveStreams' = stoppedTracks
    /\ streamRef' = <<>>
    /\ isScanning' = FALSE
    /\ scanResult' = <<>>
    /\ last' = NoCall("stopScanning")
    /\ ops' = ops + 1
    /\ UNCHANGED <<materials, clock, editingMaterial, selectedSetor, selectedSala,
                   cameraRequests, toast, sessionVars, listVars, scriptVars>>

ScannerSimulateQRScan ==
    /\ isScanning
    /\ SimulateQRScan(selectedSetor, selectedSala)

NextScanner ==
    \/ Tick
    \/ \E value \in SetorNames : SelectSetor(value)
    \/ \E value \in getSalasDoSetor(selectedSetor) : SelectSala(value)
    \/ StartScanning
    \/ \E granted \in BOOLEAN : GetUserMediaSettled(granted, ops + 1)
    \/ StopScanning
    \/ ScannerSimulateQRScan

SpecScanner == Init /\ [][NextScanner]_vars

\* The steps of the page that lead to the camera: the two selects, the start
\* button and the answer of getUserMedia.
NextCamera ==
    \/ \E value \in SetorNames : SelectSetor(value)
    \/ \E value \in getSalasDoSetor(selectedSetor) : SelectSala(value)
    \/ StartScanning
    \/ \E granted \in BOOLEAN : GetUserMediaSettled(granted, ops + 1)

SpecCamera == Init /\ [][NextCamera]_vars

(***************************************************************************)
(* The store called directly: every argument its TypeScript signature      *)
(* admits (MaterialsState), not only what the two pages pass.              *)
(***************************************************************************)
StatusInputs == {"nao_conferido", "conferido_correto"}
ConferenciaInputs ==
    { [data |-> 4, setorEncontrado |-> "TI", salaEncontrada |-> "Escritorio TI"] }
UnknownId == 0

\* Omit<Material, 'id' | 'qrCode' | 'dataCadastro'>: status is required,
\* ultimaConferencia optional.
AddPayloads ==
    LET base == { [status |-> st] @@ f :
                    f \in { g \in NewMaterialForms :
                             g.nome # "" /\ g.bmp # "" /\ g.setor \in {"", "TI"}
                             /\ g.sala \in {"", "Escritorio TI"} /\ (g.setor = "") = (g.sala = "") },
                    st \in StatusInputs }
    IN  base \cup { [ultimaConferencia |-> c] @@ b : b \in base, c \in ConferenciaInputs }

\* Partial<Material>.
UpdatePayloads ==
    { [setor |-> "Administracao", sala |-> "Sala 101"],
      [status |-> "conferido_correto"] }

IdInputs(mats) == { mats[i].id : i \in DOMAIN mats } \cup {UnknownId}

StoreLocations == { <<"TI", "Escritorio TI">>, <<"Patio", "Doca 1">> }

StoreAddMaterial(materialData, rnd) ==
    /\ ops < MaxOps
    /\ materials' = addMaterial(materials, materialData, clock, rnd)
    /\ last' = Call("add", TRUE, FALSE, clock, <<clock, rnd>>, "", "", "")
    /\ ops' = ops + 1
    /\ UNCHANGED <<clock, editingMaterial, isScanning, scanResult, toast, sessionVars, listVars,
                   scannerVars, streamVars, scriptVars>>

StoreUpdateMaterial(id, updates) ==
    /\ ops < MaxOps
    /\ materials' = updateMaterial(materials, id, updates)
    /\ last' = Call("update", TRUE, hasId(materials, id), id, <<0, "">>, "", "", "")
    /\ ops' = ops + 1
    /\ UNCHANGED <<clock, editingMaterial, isScanning, scanResult, toast, sessionVars, listVars,
                   scannerVars, streamVars, scriptVars>>

StoreDeleteMaterial(id) ==
    /\ ops < MaxOps
    /\ materials' = deleteMaterial(materials, id)
    /\ last' = Call("delete", TRUE, hasId(materials, id), id, <<0, "">>, "", "", "")
    /\ ops' = ops + 1
    /\ UNCHANGED <<clock, editingMaterial, isScanning, scanResult, toast, sessionVars, listVars,
                   scannerVars, streamVars, scriptVars>>

StoreConferirMaterial(qrCode, setor, sala) ==
    LET found == findByQrCode(materials, qrCode) # 0
    IN  /\ ops < MaxOps
        /\ materials' = conferirMaterial(materials, qrCode, setor, sala, clock)
        /\ last' = Call("conferir", TRUE, found, 0, qrCode, setor, sala,
                        conferirMaterialReturn(found))
        /\ ops' = ops + 1
        /\ UNCHANGED <<clock, editingMaterial, isScanning, scanResult, toast, sessionVars, listVars,
                   scannerVars, streamVars, scriptVars>>

NextStore ==
    \/ Tick
    \/ \E materialData \in AddPayloads, rnd \in RandomInputs :
          StoreAddMaterial(materialData, rnd)
    \/ \E id \in IdInputs(materials), updates \in UpdatePayloads :
          StoreUpdateMaterial(id, updates)
    \/ \E id \in IdInputs(materials) : StoreDeleteMaterial(id)
    \/ \E qr \in QRCodeInputs(materials), loc \in StoreLocations :
          StoreConferirMaterial(qr, loc[1], loc[2])

\* The store is called with or without a session.
InitStore ==
    /\ InitRegistry
    /\ user \in {<<>>, <<AdminUser>>}
    /\ isAuthenticated = (user # <<>>)
    /\ ScriptsNotRun

SpecStore == InitStore /\ [][NextStore]_vars

(***************************************************************************)
(* The list of the page Materiais: filteredMaterials, computed at every    *)
(* render from the registry, the search box and the status filter. To      *)
(* look inside the texts, in this specification a string is the sequence   *)
(* of its characters ("" is <<>>) and nome, bmp and responsavel of the     *)
(* records are such sequences.                                             *)
(***************************************************************************)
MaxTermLen == 2
MaxListLen == 2

Chars == {"a", "A", "B", "1"}

\* Mutant: the search compares the texts as they are written.
toLowerCase_asWritten(str) == str

\* String.prototype.toLowerCase on the characters used here.
toLowerCase(str) ==
    [i \in DOMAIN str |->
        CASE str[i] = "A" -> "a"
          [] str[i] = "B" -> "b"
          [] OTHER -> str[i]]

\* String.prototype.includes.
includes(str, searchString) ==
    \E k \in 0..(Len(str) - Len(searchString)) :
        SubSeq(str, k + 1, k + Len(searchString)) = searchString

matchesSearch(material, term) ==
    \/ includes(toLowerCase(material.nome), toLowerCase(term))
    \/ includes(toLowerCase(material.bmp), toLowerCase(term))
    \/ includes(toLowerCase(material.responsavel), toLowerCase(term))

matchesStatus(material, status) == status = "all" \/ material.status = status

filteredMaterials(mats, term, status) ==
    SelectSeq(mats, LAMBDA material : matchesSearch(material, term) /\ matchesStatus(material, status))

SeqsUpTo(S, n) == UNION { [1..k -> S] : k \in 0..n }

SearchTermInputs == SeqsUpTo(Chars, MaxTermLen)
FilterStatusInputs == {"all", "nao_conferido", "conferido_correto", "conferido_outro_setor"}

listMaterial(id, nome, bmp, responsavel, status) ==
    LET m == [id |-> id, nome |-> nome, bmp |-> bmp, setor |-> "TI", sala |-> "Escritorio TI",
              responsavel |-> responsavel, qrCode |-> <<id, "ABC123">>, status |-> status,
              dataCadastro |-> id]
    IN  IF status = "nao_conferido" THEN m
        ELSE [ultimaConferencia |-> [data |-> 5, setorEncontrado |-> "TI",
                                     salaEncontrada |-> "Sala Tecnica"]] @@ m

ListMaterialInputs ==
    { listMaterial(1, <<"A", "b">>, <<"1">>, <<"b">>, "nao_conferido"),
      listMaterial(2, <<"b", "a">>, <<"a", "1">>, <<>>, "conferido_correto"),
      listMaterial(3, <<"B", "1">>, <<"1", "A">>, <<"A", "B">>, "conferido_outro_setor"),
      listMaterial(4, <<"1">>, <<"b", "b">>, <<"a">>, "nao_conferido") }

InitList ==
    /\ materials \in SeqsUpTo(ListMaterialInputs, MaxListLen)
    /\ InitPages
    /\ user = <<AdminUser>>
    /\ isAuthenticated = TRUE
    /\ ScriptsNotRun

SetSearchTerm(value) ==
    /\ isAuthenticated
    /\ searchTerm' = value
    /\ UNCHANGED <<materials, clock, editingMaterial, isScanning, scanResult, toast,
                   sessionVars, scannerVars, filterStatus, last, ops, streamVars, scriptVars>>

SetFilterStatus(value) ==
    /\ isAuthenticated
    /\ filterStatus' = value
    /\ UNCHANGED <<materials, clock, editingMaterial, isScanning, scanResult, toast,
                   sessionVars, scannerVars, searchTerm, last, ops, streamVars, scriptVars>>

NextList ==
    \/ \E value \in SearchTermInputs : SetSearchTerm(value)
    \/ \E value \in FilterStatusInputs : SetFilterStatus(value)

SpecList == InitList /\ [][NextList]_vars

(***************************************************************************)
(* The store useAuth called directly: login with any pair of texts and     *)
(* logout, in any order, from the state after construction (nobody logged  *)
(* in). The page Login passes the two texts of its form to login as they   *)
(* were typed; Sidebar.handleLogout calls logout.                          *)
(***************************************************************************)
LoginInputs == {"admin", "Admin", "user", ""}
SenhaInputs == {"123456", "12345", "admin", ""}
CredentialInputs == [login : LoginInputs, senha : SenhaInputs]

\* Mutant: the password is not compared.
loginAccepts_anySenha(credentials) == credentials.login = "admin"

\* The condition of the mock login.
loginAccepts(credentials) == credentials.login = "admin" /\ credentials.senha = "123456"

\* Mutant: logout clears the flag and keeps the user.
logoutState_keepsUser == [user |-> <<AdminUser>>, isAuthenticated |-> FALSE]

\* The state logout sets.
logoutState == [user |-> <<>>, isAuthenticated |-> FALSE]

Login(credentials) ==
    /\ ops < MaxOps
    /\ IF loginAccepts(credentials)
       THEN /\ user' = <<AdminUser>>
            /\ isAuthenticated' = TRUE
       ELSE UNCHANGED <<user, isAuthenticated>>
    /\ last' = [op |-> "login", credentials |-> credentials, ret |-> loginAccepts(credentials),
                wasAuthenticated |-> isAuthenticated]
    /\ ops' = ops + 1
    /\ UNCHANGED <<materials, clock, editingMaterial, isScanning, scanResult, toast, loading,
                   fetching, listVars, scannerVars, streamVars, scriptVars>>

Logout ==
    /\ ops < MaxOps
    /\ user' = logoutState.user
    /\ isAuthenticated' = logoutState.isAuthenticated
    /\ last' = [op |-> "logout", wasAuthenticated |-> isAuthenticated]
    /\ ops' = ops + 1
    /\ UNCHANGED <<materials, clock, editingMaterial, isScanning, scanResult, toast, loading,
                   fetching, listVars, scannerVars, streamVars, scriptVars>>

NextAuth ==
    \/ \E credentials \in CredentialInputs : Login(credentials)
    \/ Logout

InitAuth ==
    /\ InitRegistry
    /\ user = <<>>
    /\ isAuthenticated = FALSE
    /\ ScriptsNotRun

SpecAuth == InitAuth /\ [][NextAuth]_vars

(***************************************************************************)
(* scripts/logs.sh: the configuration block and the argument parser at     *)
(* the top of the script, up to the choice of the compose file. argv is    *)
(* the list of positional parameters ($1, $2, ...) still to be read and    *)
(* invocation the list the script was started with. A shell variable that  *)
(* is not set reads as "". The script does not run under set -e.           *)
(***************************************************************************)
MaxArgs == 3

Tokens == {"backend", "staging", "-f", "--tail", "50", "--grep", "ERROR", "-h"}

ArgvInputs == SeqsUpTo(Tokens, MaxArgs)

\* $n
param(args, n) == IF n <= Len(args) THEN args[n] ELSE ""

\* ${parameter:-word}
orDefault(parameter, word) == IF parameter = "" THEN word ELSE parameter

\* shift n: fails and leaves the parameters as they are when n > $#.
shift(args, n) == IF n <= Len(args) THEN SubSeq(args, n + 1, Len(args)) ELSE args

\* Lines 33-37, before any argument is parsed.
Configure ==
    /\ logsStep = "configure"
    /\ SERVICE' = orDefault(param(argv, 1), "")
    /\ ENVIRONMENT' = orDefault(param(argv, 2), "development")
    /\ FOLLOW' = "false"
    /\ TAIL_LINES' = "100"
    /\ GREP_FILTER' = ""
    /\ logsStep' = "parse"
    /\ UNCHANGED <<argv, invocation, COMPOSE_FILE, logsStatus, logsOutput, appVars, deployVars>>

\* One turn of the while loop. show_help is defined further down the script
\* (line 90), after the loop has run: the call at line 55 finds no such
\* command, and exit 0 follows.
ParseArgument ==
    /\ logsStep = "parse"
    /\ Len(argv) > 0
    /\ CASE argv[1] \in {"-f", "--follow"} ->
              /\ FOLLOW' = "true"
              /\ argv' = shift(argv, 1)
              /\ UNCHANGED <<SERVICE, ENVIRONMENT, TAIL_LINES, GREP_FILTER, logsStep, logsStatus,
                             logsOutput>>
         [] argv[1] = "--tail" ->
              /\ TAIL_LINES' = param(argv, 2)
              /\ argv' = shift(argv, 2)
              /\ UNCHANGED <<SERVICE, ENVIRONMENT, FOLLOW, GREP_FILTER, logsStep, logsStatus,
                             logsOutput>>
         [] argv[1] = "--grep" ->
              /\ GREP_FILTER' = param(argv, 2)
              /\ argv' = shift(argv, 2)
              /\ UNCHANGED <<SERVICE, ENVIRONMENT, FOLLOW, TAIL_LINES, logsStep, logsStatus,
                             logsOutput>>
         [] argv[1] \in {"-h", "--help"} ->
              /\ logsOutput' = "show_help: command not found"
              /\ logsStep' = "exit"
              /\ logsStatus' = 0
              /\ UNCHANGED <<argv, SERVICE, ENVIRONMENT, FOLLOW, TAIL_LINES, GREP_FILTER>>
         [] OTHER ->
              /\ IF SERVICE = ""
                 THEN SERVICE' = argv[1] /\ UNCHANGED ENVIRONMENT
                 ELSE IF ENVIRONMENT = "development"
                      THEN ENVIRONMENT' = argv[1] /\ UNCHANGED SERVICE
                      ELSE UNCHANGED <<SERVICE, ENVIRONMENT>>
              /\ argv' = shift(argv, 1)
              /\ UNCHANGED <<FOLLOW, TAIL_LINES, GREP_FILTER, logsStep, logsStatus, logsOutput>>
    /\ UNCHANGED <<invocation, COMPOSE_FILE, appVars, deployVars>>

\* Lines 70-84, once no parameter is left; then the functions are defined and
\* main runs with this configuration.
DetermineComposeFile ==
    /\ logsStep = "parse"
    /\ Len(argv) = 0
    /\ CASE ENVIRONMENT \in {"development", "dev"} ->
              /\ COMPOSE_FILE' = "docker-compose.dev.yml"
              /\ logsStep' = "main"
              /\ UNCHANGED <<logsStatus, logsOutput>>
         [] ENVIRONMENT = "staging" ->
              /\ COMPOSE_FILE' = "docker-compose.staging.yml"
              /\ logsStep' = "main"
              /\ UNCHANGED <<logsStatus, logsOutput>>
         [] ENVIRONMENT \in {"production", "prod"} ->
              /\ COMPOSE_FILE' = "docker-compose.prod.yml"
              /\ logsStep' = "main"
              /\ UNCHANGED <<logsStatus, logsOutput>>
         [] OTHER ->
              /\ logsOutput' = "Ambiente invalido: " \o ENVIRONMENT
              /\ logsStep' = "exit"
              /\ logsStatus' = 1
              /\ UNCHANGED COMPOSE_FILE
    /\ UNCHANGED <<argv, invocation, SERVICE, ENVIRONMENT, FOLLOW, TAIL_LINES, GREP_FILTER,
                   appVars, deployVars>>

NextLogs ==
    \/ Configure
    \/ ParseArgument
    \/ DetermineComposeFile

InitLogs ==
    /\ InitApp
    /\ DeployNotRun
    /\ SLACK_WEBHOOK = ""
    /\ \E args \in ArgvInputs : LogsStart(args)

SpecLogs == InitLogs /\ [][NextLogs]_vars

(***************************************************************************)
(* scripts/deploy-staging.sh: one run of the script. main asks for a       *)
(* confirmation and calls the functions of the script one after another.   *)
(* The script runs under set -e: a command that fails outside the          *)
(* condition of an if and outside a && or || list ends the run with a      *)
(* non-zero status (written 1 here), also when it is the status a          *)
(* function returns to main. Each action below is one function of the      *)
(* script; the outcome of every external command (git, docker-compose,     *)
(* curl, gzip) and every answer typed at a prompt is an input. executed    *)
(* is the history of the run: one event per function or command that ran,  *)
(* with its outcome.                                                       *)
(***************************************************************************)
max_attempts == 30

BRANCH == "staging"

\* Mutant: the code is updated before the backup is taken.
mainSteps_updateBeforeBackup ==
    <<"check_prerequisites", "validate_branch", "update_code", "backup_database",
      "build_images", "deploy", "run_migrations", "health_check">>

\* The calls of main, in order, up to the health check.
mainSteps ==
    <<"check_prerequisites", "validate_branch", "backup_database", "update_code",
      "build_images", "deploy", "run_migrations", "health_check">>

stepAfter(fn) == mainSteps[(CHOOSE i \in DOMAIN mainSteps : mainSteps[i] = fn) + 1]

Event(fn, ok) == [fn |-> fn, ok |-> ok]

\* The run goes on at the step next.
Continue(events, next) ==
    /\ step' = next
    /\ exitStatus' = exitStatus
    /\ executed' = executed \o events

\* The run ends: exit status, or the status of the command set -e stopped at.
Exit(events, status) ==
    /\ step' = "exit"
    /\ exitStatus' = status
    /\ executed' = executed \o events

WebhookInputs == {"", "https://hooks.slack.com/services/T0/B0/X0"}

Confirm(confirm) ==
    /\ step = "main"
    /\ IF confirm = "yes" THEN Continue(<<>>, mainSteps[1]) ELSE Exit(<<>>, 0)
    /\ UNCHANGED <<attempt, SLACK_WEBHOOK, appVars, logsVars>>

\* ok: .env.staging and docker-compose.staging.yml exist and the directory is
\* a git repository.
CheckPrerequisites(ok) ==
    /\ step = "check_prerequisites"
    /\ IF ok THEN Continue(<<Event("check_prerequisites", TRUE)>>, stepAfter("check_prerequisites"))
       ELSE Exit(<<Event("check_prerequisites", FALSE)>>, 1)
    /\ UNCHANGED <<attempt, SLACK_WEBHOOK, appVars, logsVars>>

\* ok: git checkout and git pull both succeed.
ValidateBranch(current_branch, REPLY, ok) ==
    /\ step = "validate_branch"
    /\ IF current_branch = BRANCH
       THEN Continue(<<Event("validate_branch", TRUE)>>, stepAfter("validate_branch"))
       ELSE IF REPLY = "y"
            THEN IF ok
                 THEN Continue(<<Event("validate_branch:git_pull", TRUE),
                                 Event("validate_branch", TRUE)>>, stepAfter("validate_branch"))
                 ELSE Exit(<<Event("validate_branch:git_pull", FALSE),
                             Event("validate_branch", FALSE)>>, 1)
            ELSE Exit(<<Event("validate_branch", FALSE)>>, 1)
    /\ UNCHANGED <<attempt, SLACK_WEBHOOK, appVars, logsVars>>

\* dump: pg_dump succeeds; gzip: the compression of the dump succeeds.
BackupDatabase(dump, gzip) ==
    /\ step = "backup_database"
    /\ IF dump
       THEN IF gzip
            THEN Continue(<<Event("pg_dump", TRUE), Event("backup_database", TRUE)>>,
                          stepAfter("backup_database"))
            ELSE Exit(<<Event("pg_dump", TRUE), Event("backup_database", FALSE)>>, 1)
       ELSE Exit(<<Event("pg_dump", FALSE), Event("backup_database", FALSE)>>, 1)
    /\ UNCHANGED <<attempt, SLACK_WEBHOOK, appVars, logsVars>>

\* clean: no uncommitted change; pull: git pull succeeds; changed: the pull
\* brought a new commit. When it brought none and the answer is y, the last
\* command of the function is the list  [[ ! $REPLY =~ ^[Yy]$ ]] && exit 0,
\* whose status 1 is the status update_code returns to main.
UpdateCode(clean, pull, changed, REPLY) ==
    /\ step = "update_code"
    /\ IF ~clean THEN Exit(<<Event("update_code", FALSE)>>, 1)
       ELSE IF ~pull THEN Exit(<<Event("git_pull", FALSE), Event("update_code", FALSE)>>, 1)
       ELSE IF changed
            THEN Continue(<<Event("git_pull", TRUE), Event("update_code", TRUE)>>,
                          stepAfter("update_code"))
       ELSE IF REPLY = "y"
            THEN Exit(<<Event("git_pull", TRUE), Event("update_code", FALSE)>>, 1)
            ELSE Exit(<<Event("git_pull", TRUE)>>, 0)
    /\ UNCHANGED <<attempt, SLACK_WEBHOOK, appVars, logsVars>>

BuildImages(ok) ==
    /\ step = "build_images"
    /\ IF ok THEN Continue(<<Event("build_images", TRUE)>>, stepAfter("build_images"))
       ELSE Exit(<<Event("build_images", FALSE)>>, 1)
    /\ UNCHANGED <<attempt, SLACK_WEBHOOK, appVars, logsVars>>

\* ok: both docker-compose up commands succeed.
Deploy(ok) ==
    /\ step = "deploy"
    /\ IF ok THEN Continue(<<Event("deploy", TRUE)>>, stepAfter("deploy"))
       ELSE Exit(<<Event("deploy", FALSE)>>, 1)
    /\ UNCHANGED <<attempt, SLACK_WEBHOOK, appVars, logsVars>>

\* alembic: alembic.ini exists in the backend; ok: alembic upgrade head
\* succeeds.
RunMigrations(alembic, ok) ==
    /\ step = "run_migrations"
    /\ IF alembic => ok THEN Continue(<<Event("run_migrations", TRUE)>>, stepAfter("run_migrations"))
       ELSE Exit(<<Event("run_migrations", FALSE)>>, 1)
    /\ UNCHANGED <<attempt, SLACK_WEBHOOK, appVars, logsVars>>

\* One turn of the loop of health_check; ok: curl -f /health succeeds. The
\* function runs as the condition of an if, where set -e does not apply.
HealthProbe(ok) ==
    /\ step = "health_check"
    /\ attempt < max_attempts
    /\ IF ok
       THEN /\ Continue(<<Event("probe", TRUE), Event("health_check", TRUE)>>, "cleanup")
            /\ UNCHANGED attempt
       ELSE /\ attempt' = attempt + 1
            /\ IF attempt + 1 = max_attempts
               THEN Continue(<<Event("probe", FALSE), Event("health_check", FALSE)>>,
                             "notify_team failed")
               ELSE Continue(<<Event("probe", FALSE)>>, "health_check")
    /\ UNCHANGED <<SLACK_WEBHOOK, appVars, logsVars>>

\* ok: both docker prune commands succeed.
Cleanup(ok) ==
    /\ step = "cleanup"
    /\ IF ok THEN Continue(<<Event("cleanup", TRUE)>>, "notify_team success")
       ELSE Exit(<<Event("cleanup", FALSE)>>, 1)
    /\ UNCHANGED <<attempt, SLACK_WEBHOOK, appVars, logsVars>>

\* notify_team "success" / "failed"; curl: the POST to the webhook succeeds.
\* Without a webhook the function only prints a warning. After the success
\* notice main ends; after the failure notice it calls rollback.
NotifyTeam(status, curl) ==
    /\ step = "notify_team " \o status
    /\ IF SLACK_WEBHOOK # "" /\ ~curl
       THEN Exit(<<Event(step, FALSE)>>, 1)
       ELSE IF status = "failed"
            THEN Continue(<<Event(step, TRUE)>>, "rollback")
            ELSE Exit(<<Event(step, TRUE)>>, 0)
    /\ UNCHANGED <<attempt, SLACK_WEBHOOK, appVars, logsVars>>

\* reset: git reset --hard succeeds; restore: the backup is piped into psql
\* with success; recreate: docker-compose up -d --force-recreate succeeds. The
\* two files in /tmp were written by backup_database and update_code.
Rollback(reset, restore, recreate) ==
    /\ step = "rollback"
    /\ Exit(IF ~reset THEN <<Event("git_reset", FALSE), Event("rollback", FALSE)>>
            ELSE IF ~restore
                 THEN <<Event("git_reset", TRUE), Event("restore_backup", FALSE),
                        Event("rollback", FALSE)>>
            ELSE <<Event("git_reset", TRUE), Event("restore_backup", TRUE),
                   Event("force_recreate", recreate), Event("rollback", recreate)>>, 1)
    /\ UNCHANGED <<attempt, SLACK_WEBHOOK, appVars, logsVars>>

NextDeploy ==
    \/ \E confirm \in {"yes", "no"} : Confirm(confirm)
    \/ \E ok \in BOOLEAN : CheckPrerequisites(ok)
    \/ \E current_branch \in {"staging", "main"}, REPLY \in {"y", "n"}, ok \in BOOLEAN :
          ValidateBranch(current_branch, REPLY, ok)
    \/ \E dump \in BOOLEAN, gzip \in BOOLEAN : BackupDatabase(dump, gzip)
    \/ \E clean \in BOOLEAN, pull \in BOOLEAN, changed \in BOOLEAN, REPLY \in {"y", "n"} :
          UpdateCode(clean, pull, changed, REPLY)
    \/ \E ok \in BOOLEAN : BuildImages(ok)
    \/ \E ok \in BOOLEAN : Deploy(ok)
    \/ \E alembic \in BOOLEAN, ok \in BOOLEAN : RunMigrations(alembic, ok)
    \/ \E ok \in BOOLEAN : HealthProbe(ok)
    \/ \E ok \in BOOLEAN : Cleanup(ok)
    \/ \E status \in {"success", "failed"}, curl \in BOOLEAN : NotifyTeam(status, curl)
    \/ \E reset \in BOOLEAN, restore \in BOOLEAN, recreate \in BOOLEAN :
          Rollback(reset, restore, recreate)

InitDeploy ==
    /\ InitApp
    /\ LogsNotRun
    /\ DeployNotRun
    /\ SLACK_WEBHOOK \in WebhookInputs

SpecDeploy == InitDeploy /\ [][NextDeploy]_vars

(***************************************************************************)
(* Properties.                                                             *)
(***************************************************************************)
conferenciaOf(setor, sala, now) ==
    [data |-> now, setorEncontrado |-> setor, salaEncontrada |-> sala]

\* The step just taken was a scan (handleQRCodeDetected / conferirMaterial).
JustScanned == last.op = "conferir"

\* C1: right after a scan of code Q at (S, R), every material whose qrCode is
\* Q and whose assigned location is (S, R) has status conferido_correto and
\* ultimaConferencia = {data: now, setorEncontrado: S, salaEncontrada: R}.
C1_ScanAtAssignedLocationIsCorrect ==
    JustScanned =>
        \A i \in DOMAIN materials :
            (materials[i].qrCode = last.qrCode /\ materials[i].setor = last.setor
                /\ materials[i].sala = last.sala)
            => /\ materials[i].status = "conferido_correto"
               /\ hasConferencia(materials[i])
               /\ materials[i].ultimaConferencia = conferenciaOf(last.setor, last.sala, clock)

\* C2: right after a scan of code Q at (S', R'), every material whose qrCode
\* is Q and whose assigned location differs from (S', R') in the sector or in
\* the room has status conferido_outro_setor.
C2_ScanElsewhereIsOutroSetor ==
    JustScanned =>
        \A i \in DOMAIN materials :
            (materials[i].qrCode = last.qrCode
                /\ (materials[i].setor # last.setor \/ materials[i].sala # last.sala))
            => materials[i].status = "conferido_outro_setor"

\* C3: in every reachable state, a material that has an ultimaConferencia is
\* conferido_correto exactly when its (setor, sala) is the location of that
\* conference, and conferido_outro_setor otherwise.
C3_StatusDerivedFromConferencia ==
    \A i \in DOMAIN materials :
        hasConferencia(materials[i]) =>
            materials[i].status =
                IF materials[i].setor = materials[i].ultimaConferencia.setorEncontrado
                   /\ materials[i].sala = materials[i].ultimaConferencia.salaEncontrada
                THEN "conferido_correto" ELSE "conferido_outro_setor"

\* C4: in every reachable state, a material that has no ultimaConferencia has
\* status nao_conferido.
C4_NoConferenciaIsNaoConferido ==
    \A i \in DOMAIN materials :
        ~hasConferencia(materials[i]) => materials[i].status = "nao_conferido"

\* C4 witness: a material with no conference record has just been edited
\* through the form and is in the registry beside scanned ones.
C4_Witness ==
    /\ last.op = "update" /\ last.accepted /\ last.found
    /\ \E i \in DOMAIN materials :
          materials[i].id = last.id /\ ~hasConferencia(materials[i])
    /\ \E j \in DOMAIN materials : hasConferencia(materials[j])

\* C5: in every reachable state no two materials share a bmp and no two
\* share a qrCode.
C5_BmpAndQrCodeUnique ==
    \A i, j \in DOMAIN materials :
        i # j => /\ materials[i].bmp # materials[j].bmp
                 /\ materials[i].qrCode # materials[j].qrCode

idsOf(mats) == [i \in DOMAIN mats |-> mats[i].id]

IdsDistinct == \A i, j \in DOMAIN materials : i # j => materials[i].id # materials[j].id

\* No step changes the id of a material that stays: the ids are the same
\* sequence, or that sequence with the new material's id appended, or (after
\* a delete) that sequence without the deleted id.
IdsKept ==
    \/ idsOf(materials') = idsOf(materials)
    \/ /\ Len(materials') = Len(materials) + 1
       /\ SubSeq(idsOf(materials'), 1, Len(materials)) = idsOf(materials)
    \/ /\ last'.op = "delete"
       /\ idsOf(materials') = SelectSeq(idsOf(materials), LAMBDA id : id # last'.id)

\* C6: the materials of the registry always have pairwise distinct ids, and
\* no step changes the id of an existing material.
C6_IdsUniqueAndImmutable == [](IdsDistinct) /\ [][IdsKept]_vars

\* C7: right after addMaterial, for any payload its signature admits, the
\* record added (the last of the list) has status nao_conferido and no
\* ultimaConferencia.
C7_CreatedIsNaoConferidoWithoutConferencia ==
    (last.op = "add" /\ last.accepted) =>
        /\ materials[Len(materials)].status = "nao_conferido"
        /\ ~hasConferencia(materials[Len(materials)])

\* C8: a conferirMaterial whose qrCode matches no material, and an
\* updateMaterial or deleteMaterial whose id matches no material, leave the
\* materials list exactly as it was.
C8_NotFoundLeavesRegistryUnchanged ==
    [][(last'.op \in {"conferir", "update", "delete"} /\ last'.accepted /\ ~last'.found)
        => materials' = materials]_vars

\* C8 witness: an updateMaterial with an id of no material has just run on a
\* registry that holds materials.
C8_Witness ==
    /\ last.op = "update" /\ last.accepted /\ ~last.found
    /\ Len(materials) >= 3

\* C9: right after a scan whose code matches no material, what the operator
\* observes (the value returned by the store, the scan result panel, the
\* toast) differs from what a scan of a registered code at the same location
\* shows.
C9_NotFoundScanIsDistinguishable ==
    (JustScanned /\ ~last.found) =>
        [ret |-> last.ret, scanResult |-> scanResult, toast |-> toast]
            # scanOutcome(TRUE, last.setor, last.sala)

\* The fields of a material a scan must leave alone.
frameOf(m) ==
    [id |-> m.id, nome |-> m.nome, bmp |-> m.bmp, setor |-> m.setor, sala |-> m.sala,
     responsavel |-> m.responsavel, qrCode |-> m.qrCode, dataCadastro |-> m.dataCadastro]

\* C10: a scan leaves setor, sala, id, nome, bmp, responsavel, qrCode and
\* dataCadastro of every material as they were.
C10_ScanKeepsLocationAndIdentity ==
    [][last'.op = "conferir" =>
        /\ Len(materials') = Len(materials)
        /\ \A i \in DOMAIN materials : frameOf(materials'[i]) = frameOf(materials[i])]_vars

\* C10 witness: a material has just been scanned away from its assigned
\* location, and its assigned location is still the one it had.
C10_Witness ==
    /\ JustScanned /\ last.found
    /\ \E i \in DOMAIN materials :
          /\ materials[i].qrCode = last.qrCode
          /\ materials[i].ultimaConferencia = conferenciaOf(last.setor, last.sala, clock)
          /\ materials[i].status = "conferido_outro_setor"
          /\ <<materials[i].setor, materials[i].sala>> # <<last.setor, last.sala>>

\* C11: a scan changes at most the one record its lookup finds: the list
\* keeps its length and order, and every record other than the one found is
\* as it was.
C11_ScanTouchesOnlyTheRecordFound ==
    [][last'.op = "conferir" =>
        /\ Len(materials') = Len(materials)
        /\ \A i \in DOMAIN materials :
              i # findByQrCode(materials, last'.qrCode) => materials'[i] = materials[i]]_vars

\* The registry without the timestamps of the conference records.
withoutData(mats) ==
    [i \in DOMAIN mats |->
        IF hasConferencia(mats[i])
        THEN [mats[i] EXCEPT !.ultimaConferencia =
                 [setorEncontrado |-> @.setorEncontrado, salaEncontrada |-> @.salaEncontrada]]
        ELSE mats[i]]

\* C12: a scan that repeats the scan just made (same qrCode, setor and sala)
\* leaves the registry as the first one left it, but for the timestamp
\* ultimaConferencia.data.
C12_RepeatedScanIsIdempotent ==
    [][last'.again => withoutData(materials') = withoutData(materials)]_vars

\* C12 witness: a code of the initial registry has been scanned away from the
\* material's assigned location, time has passed, and the same scan has just
\* been made again: two scans and one tick from the initial state.
C12_Witness ==
    /\ last.again /\ last.found
    /\ ops = 3 /\ clock = 11
    /\ \E i \in DOMAIN materials :
          /\ materials[i].qrCode = last.qrCode
          /\ materials[i].status = "conferido_outro_setor"
          /\ materials[i].ultimaConferencia = conferenciaOf(last.setor, last.sala, clock)

conferidoStatus(m) == m.status \in {"conferido_correto", "conferido_outro_setor"}

\* C13: a material that is conferido_correto or conferido_outro_setor is never
\* nao_conferido in a later state in which it still exists. A step other than
\* a delete keeps every record at its position; a delete keeps the surviving
\* records as they were.
C13_ConferidoNeverBackToNaoConferido ==
    [][IF last'.op = "delete"
       THEN \A j \in DOMAIN materials' : materials'[j] \in Range(materials)
       ELSE \A i \in DOMAIN materials :
               /\ i \in DOMAIN materials'
               /\ materials'[i].id = materials[i].id
               /\ conferidoStatus(materials[i]) => conferidoStatus(materials'[i])]_vars

\* C13 witness: a conferred material has just been edited and is still
\* conferred.
C13_Witness ==
    /\ last.op = "update" /\ last.accepted /\ last.found
    /\ \E i \in DOMAIN materials :
          /\ materials[i].id = last.id
          /\ materials[i].nome = "Notebook"
          /\ conferidoStatus(materials[i])

\* The fields an update must not write: identity, creation date, status and
\* conference record.
protectedOf(m) ==
    <<m.id, m.qrCode, m.dataCadastro, m.status,
      IF hasConferencia(m) THEN <<m.ultimaConferencia>> ELSE <<>> >>

conferenciaStateOf(m) ==
    <<m.status, IF hasConferencia(m) THEN <<m.ultimaConferencia>> ELSE <<>> >>

\* C14: updateMaterial(id, updates) changes the id, qrCode, dataCadastro,
\* status or ultimaConferencia of no material, whatever updates holds; and so
\* the status and ultimaConferencia of a material that exists before and
\* after a step differ only when the step is a scan.
C14_UpdateKeepsProtectedFields ==
    [][/\ last'.op = "update" =>
            /\ Len(materials') = Len(materials)
            /\ \A i \in DOMAIN materials : protectedOf(materials'[i]) = protectedOf(materials[i])
       /\ last'.op \notin {"conferir", "delete"} =>
            \A i \in DOMAIN materials :
               /\ i \in DOMAIN materials'
               /\ conferenciaStateOf(materials'[i]) = conferenciaStateOf(materials[i])
       /\ last'.op = "delete" =>
            \A j \in DOMAIN materials' : materials'[j] \in Range(materials)]_vars

\* What one scan at (setor, sala) at instant now makes of a material, judged
\* against the material's own assigned location and nothing else.
lastScanAlone(m, setor, sala, now) ==
    [status |-> IF m.setor = setor /\ m.sala = sala
                THEN "conferido_correto" ELSE "conferido_outro_setor",
     ultimaConferencia |-> conferenciaOf(setor, sala, now)] @@ m

\* C15: whatever scans came before, and in whatever order, after a scan of a
\* registered code every material carrying the code has the status and the
\* ultimaConferencia that this last scan alone gives it against its current
\* assigned location: nothing of an earlier scan is kept and the scan is not
\* rejected.
C15_LastScanWins ==
    [][last'.op = "conferir" =>
        \A i \in DOMAIN materials :
            materials[i].qrCode = last'.qrCode =>
                /\ i \in DOMAIN materials'
                /\ materials'[i] = lastScanAlone(materials[i], last'.setor, last'.sala, clock)]_vars

isAdmin == user # <<>> /\ user[1].tipo = "admin"

\* C16: a deleteMaterial call made while the current user is not an admin
\* (an operador, or nobody) leaves the record in the registry; a material
\* leaves the registry only in a step taken by an admin.
C16_DeleteOnlyByAdmin ==
    [][/\ (last'.op = "delete" /\ ~isAdmin) => materials' = materials
       /\ Len(materials') < Len(materials) => isAdmin]_vars

\* C17: after deleteMaterial(id) for an id of the registry, no material has
\* that id, and the materials with another id are all there, unchanged and in
\* the order they had: the k-th of them before is the k-th record after.
C17_DeleteRemovesOnlyThatId ==
    [][(last'.op = "delete" /\ last'.accepted /\ last'.found) =>
        LET kept == { i \in DOMAIN materials : materials[i].id # last'.id }
        IN  /\ ~hasId(materials', last'.id)
            /\ Len(materials') = Cardinality(kept)
            /\ \A i \in kept :
                  materials'[Cardinality({ k \in kept : k <= i })] = materials[i]]_vars

\* C17 witness: the second material of the initial registry has been deleted
\* after a material was added; the first, the third and the added one remain.
C17_Witness ==
    /\ last.op = "delete" /\ last.accepted /\ last.found /\ last.id = 2
    /\ Len(materials) = 3
    /\ materials[1] = mockMaterials[1]
    /\ materials[2] = mockMaterials[3]
    /\ materials[3].id >= 10

requiredFieldsFilled(m) == m.nome # "" /\ m.bmp # "" /\ m.setor # "" /\ m.sala # ""

\* C18: a create or an edit submitted with an empty nome, bmp, setor or sala
\* is refused and leaves the registry as it was; hence every material of the
\* registry, added or edited, has the four fields non-empty.
C18_IncompleteFormChangesNothing ==
    /\ [](\A i \in DOMAIN materials : requiredFieldsFilled(materials[i]))
    /\ [][(last'.op \in {"add", "update"} /\ ~last'.accepted) => materials' = materials]_vars

\* C18 witness: a complete create has added a material, the material has been
\* opened for edit, and the edit submitted with an empty field was refused.
C18_Witness ==
    /\ last.op = "update" /\ ~last.accepted /\ last.id >= 10
    /\ editingMaterial = <<last.id>>
    /\ Len(materials) = 4
    /\ materials[4].id = last.id
    /\ requiredFieldsFilled(materials[4])

\* Two characters that are the same letter, in whichever case.
sameLetter(c, d) == c = d \/ {c, d} \in { {"a", "A"}, {"b", "B"} }

containsIgnoringCase(text, t) ==
    \E k \in 0..(Len(text) - Len(t)) : \A j \in 1..Len(t) : sameLetter(text[k + j], t[j])

listed(m, t, f) ==
    /\ containsIgnoringCase(m.nome, t) \/ containsIgnoringCase(m.bmp, t)
          \/ containsIgnoringCase(m.responsavel, t)
    /\ f # "all" => m.status = f

\* C19: the list shown for search term t and status filter f is the sub-list
\* of the registry, in registry order, of the materials whose nome, bmp or
\* responsavel contains t whatever the case of the letters and whose status
\* is f when f is not "all"; with t empty and f "all" it is the registry.
C19_ListIsTheMatchingSublist ==
    LET shown == filteredMaterials(materials, searchTerm, filterStatus)
        kept == { i \in DOMAIN materials : listed(materials[i], searchTerm, filterStatus) }
    IN  /\ Len(shown) = Cardinality(kept)
        /\ \A i \in kept : shown[Cardinality({ k \in kept : k <= i })] = materials[i]
        /\ (searchTerm = <<>> /\ filterStatus = "all") => shown = materials

\* C19 witness: a search written in capitals together with a status filter
\* shows the second of two materials and not the first, found by its bmp
\* written in small letters.
C19_Witness ==
    /\ searchTerm = <<"B">> /\ filterStatus = "nao_conferido"
    /\ Len(materials) = 2
    /\ materials[1].id = 2 /\ materials[2].id = 4
    /\ filteredMaterials(materials, searchTerm, filterStatus) = <<materials[2]>>

\* C20: every conferirMaterial call that the scanner page issues carries a
\* non-empty sector and a non-empty room, and the room is one of the rooms of
\* that sector in mockSetores.
C20_ScanCallsCarryAListedLocation ==
    [][last'.op = "conferir" =>
        /\ last'.setor # "" /\ last'.sala # ""
        /\ last'.sala \in getSalasDoSetor(last'.setor)]_vars

\* The selects of the scanner page: a selected room is a room of the selected
\* sector.
SelectedSalaIsOfSelectedSetor ==
    selectedSala # "" => selectedSala \in getSalasDoSetor(selectedSetor)

\* The scanner page is not scanning and no scan has been made.
ScannerNotScanning == ~isScanning /\ last.op # "conferir"

\* A camera request made with both selects set has been granted.
CameraGrantedWithSelection ==
    /\ last.op = "getUserMedia" /\ last.accepted
    /\ selectedSetor # "" /\ selectedSala # ""

(***************************************************************************)
(* scripts/deploy-staging.sh.                                              *)
(***************************************************************************)
\* The commands that change the deployment.
DeploymentChanges == {"git_pull", "build_images", "deploy", "run_migrations"}

happened(fn, ok) == \E i \in DOMAIN executed : executed[i] = Event(fn, ok)

exitedNonZero == step = "exit" /\ exitStatus \notin {-1, 0}

\* C21: in every run, git pull of update_code, build_images, deploy and
\* run_migrations are executed only after backup_database has completed with
\* success earlier in the run; and when the database dump fails the run has
\* exited with a non-zero status and none of them was executed.
C21_BackupBeforeDeploymentChanges ==
    /\ \A i \in DOMAIN executed :
          executed[i].fn \in DeploymentChanges =>
             \E j \in 1..(i - 1) : executed[j] = Event("backup_database", TRUE)
    /\ happened("pg_dump", FALSE) =>
          /\ exitedNonZero
          /\ \A i \in DOMAIN executed : executed[i].fn \notin DeploymentChanges

C21_Witness ==
    /\ happened("git_pull", TRUE)
    /\ happened("build_images", TRUE)
    /\ happened("deploy", TRUE)
    /\ happened("run_migrations", TRUE)

\* A step after update_code failed in a run that had updated the code.
failedAfterUpdate ==
    \E i \in DOMAIN executed, j \in DOMAIN executed :
        /\ i < j
        /\ executed[i] = Event("update_code", TRUE)
        /\ executed[j].fn \in {"build_images", "deploy", "run_migrations", "health_check"}
        /\ ~executed[j].ok

\* C22: a run that has updated the code and in which build_images, deploy,
\* run_migrations or health_check fails exits with a non-zero status, and
\* before that it has run rollback: the previous commit is restored, the last
\* backup is restored and the containers are recreated.
C22_FailureAfterUpdateRollsBack ==
    (step = "exit" /\ failedAfterUpdate) =>
        /\ exitedNonZero
        /\ happened("git_reset", TRUE)
        /\ happened("restore_backup", TRUE)
        /\ happened("force_recreate", TRUE)

probesBefore(i) == { k \in 1..(i - 1) : executed[k].fn = "probe" }

\* C23: health_check makes at most 30 probes and is over after the 30th; it
\* returns success at the first probe that succeeds and failure when 30
\* probes have failed; and a run that ended after a failure return has
\* notified the team of the failure and then run rollback.
C23_HealthCheckBoundedThenRollback ==
    /\ Cardinality(probesBefore(Len(executed) + 1)) <= 30
    /\ Cardinality(probesBefore(Len(executed) + 1)) = 30 => step # "health_check"
    /\ \A i \in DOMAIN executed :
          /\ executed[i] = Event("probe", TRUE) =>
                /\ i < Len(executed) /\ executed[i + 1] = Event("health_check", TRUE)
                /\ \A k \in probesBefore(i) : ~executed[k].ok
          /\ executed[i] = Event("health_check", TRUE) => executed[i - 1] = Event("probe", TRUE)
          /\ executed[i] = Event("health_check", FALSE) =>
                /\ Cardinality(probesBefore(i)) = 30
                /\ \A k \in probesBefore(i) : ~executed[k].ok
    /\ (step = "exit" /\ happened("health_check", FALSE)) =>
          \E j \in DOMAIN executed, k \in DOMAIN executed :
              /\ j < k
              /\ executed[j] = Event("notify_team failed", TRUE)
              /\ executed[k].fn = "rollback"

\* The part of C23 about the loop alone.
HealthCheckLoopBounded ==
    /\ Cardinality(probesBefore(Len(executed) + 1)) <= 30
    /\ happened("health_check", FALSE) => Cardinality(probesBefore(Len(executed) + 1)) = 30

HealthCheckFailedRun == step = "exit" /\ happened("health_check", FALSE)

(***************************************************************************)
(* scripts/logs.sh.                                                        *)
(***************************************************************************)
OptionTokens == {"-f", "--follow", "--tail", "--grep", "-h", "--help"}

Configuration(service, environment, follow, tail, grep) ==
    [SERVICE |-> service, ENVIRONMENT |-> environment, FOLLOW |-> follow,
     TAIL_LINES |-> tail, GREP_FILTER |-> grep]

\* The invocations of the usage text and of the help text, with the
\* configuration each one stands for.
DocumentedInvocations ==
    { <<>>, <<"backend">>, <<"backend", "staging">>, <<"-f">>, <<"--tail", "50">>,
      <<"backend", "--grep", "ERROR">>, <<"-h">> }

documented(args) ==
    CASE args = <<>> -> Configuration("", "development", "false", "100", "")
      [] args = <<"backend">> -> Configuration("backend", "development", "false", "100", "")
      [] args = <<"backend", "staging">> -> Configuration("backend", "staging", "false", "100", "")
      [] args = <<"-f">> -> Configuration("", "development", "true", "100", "")
      [] args = <<"--tail", "50">> -> Configuration("", "development", "false", "50", "")
      [] args = <<"backend", "--grep", "ERROR">> ->
            Configuration("backend", "development", "false", "100", "ERROR")

\* The parser is done: main runs next, or the script has exited.
parsed == logsStep \in {"main", "exit"}

\* C24: once the arguments of a documented invocation are parsed, no option
\* token is the service or the environment, the script has not exited with
\* "Ambiente invalido", and (but for -h, which only shows the help) SERVICE,
\* ENVIRONMENT, FOLLOW, TAIL_LINES and GREP_FILTER are the documented ones
\* and main runs with them.
C24_DocumentedInvocationsParse ==
    (parsed /\ invocation \in DocumentedInvocations) =>
        /\ SERVICE \notin OptionTokens
        /\ ENVIRONMENT \notin OptionTokens
        /\ logsOutput # "Ambiente invalido: " \o ENVIRONMENT
        /\ invocation # <<"-h">> =>
              /\ logsStep = "main"
              /\ Configuration(SERVICE, ENVIRONMENT, FOLLOW, TAIL_LINES, GREP_FILTER)
                    = documented(invocation)

\* The two documented invocations that do parse as documented.
ParsesAsDocumented ==
    (parsed /\ invocation \in {<<>>, <<"backend", "staging">>}) =>
        /\ logsStep = "main"
        /\ Configuration(SERVICE, ENVIRONMENT, FOLLOW, TAIL_LINES, GREP_FILTER)
              = documented(invocation)

(***************************************************************************)
(* The store useAuth.                                                      *)
(***************************************************************************)
\* C25: login returns true and sets isAuthenticated with the admin user
\* exactly when the credentials are admin / 123456; with any other pair it
\* returns false and leaves user and isAuthenticated as they were.
C25_LoginOnlyWithAdminCredentials ==
    [][last'.op = "login" =>
          IF last'.credentials = [login |-> "admin", senha |-> "123456"]
          THEN /\ last'.ret = TRUE
               /\ isAuthenticated' = TRUE
               /\ user' # <<>>
               /\ user'[1].login = "admin"
               /\ user'[1].tipo = "admin"
          ELSE /\ last'.ret = FALSE
               /\ user' = user
               /\ isAuthenticated' = isAuthenticated]_vars

\* A login with a wrong password was refused while a session was open.
C25_Witness ==
    /\ last.op = "login"
    /\ last.credentials = [login |-> "admin", senha |-> "12345"]
    /\ last.wasAuthenticated
    /\ isAuthenticated

\* C26: in every state of the auth store isAuthenticated is true exactly when
\* user is not null, the user of a session is an admin, and after logout
\* user is null and isAuthenticated is false.
C26_AuthenticatedIffUser ==
    /\ isAuthenticated \in BOOLEAN
    /\ isAuthenticated <=> user # <<>>
    /\ isAuthenticated => user[1].tipo = "admin"
    /\ last.op = "logout" => (user = <<>> /\ isAuthenticated = FALSE)

\* logout has ended a session.
C26_Witness ==
    /\ last.op = "logout"
    /\ last.wasAuthenticated
    /\ user = <<>>

(***************************************************************************)
(* Page QRScanner: camera and result panel.                                *)
(***************************************************************************)
\* C27: when getUserMedia hands a stream to startScanning, the page is
\* scanning afterwards and streamRef holds a live stream; and in every state
\* each stream that was acquired and not stopped is the one streamRef holds.
C27_AcquiredStreamIsTracked ==
    /\ [](liveStreams \subseteq Range(streamRef))
    /\ [][(last'.op = "getUserMedia" /\ last'.accepted) =>
             (isScanning' /\ streamRef' # <<>> /\ Range(streamRef') \subseteq liveStreams')]_vars

\* The part of C27 on its own: no live stream outside streamRef.
NoUntrackedStream == liveStreams \subseteq Range(streamRef)

\* The camera was granted to a start with both selects set.
CameraGrantedNotScanning ==
    /\ last.op = "getUserMedia"
    /\ last.accepted
    /\ ~isScanning

\* C28: after handleQRCodeDetected the page is not scanning and scanResult
\* holds the code read, the selected sector and room and the time of the
\* reading, so that the result panel is shown.
C28_ScanResultShownAfterDetection ==
    JustScanned =>
        /\ ~isScanning
        /\ scanResult # <<>>
        /\ scanResult[1].qrCode = last.qrCode
        /\ scanResult[1].setor = last.setor
        /\ scanResult[1].sala = last.sala

\* The part of C28 that holds: the page is not scanning after a detection.
NotScanningAfterDetection == JustScanned => ~isScanning

(***************************************************************************)
(* fetchMaterials and the statistics of the Dashboard.                     *)
(***************************************************************************)
\* C29: fetchMaterials changes nothing but the loading flag, at its start and
\* at its completion, and loading is true while any call, overlapping calls
\* included, is still waiting.
C29_LoadingWhileFetchPending ==
    /\ [](fetching > 0 => loading = TRUE)
    /\ [][last'.op \in {"fetch", "fetched"} => materials' = materials]_vars

\* The part of C29 that holds: a fetch leaves the registry as it is and its
\* completion clears the flag.
FetchKeepsTheRegistry ==
    [][last'.op \in {"fetch", "fetched"} =>
          (materials' = materials /\ (last'.op = "fetched" => loading' = FALSE))]_vars

\* A call has completed while another one still waits.
FetchCompletedWhileAnotherPending == last.op = "fetched" /\ fetching > 0

\* The three counters add up to the total, and the percentage is a whole
\* number from 0 to 100, 0 for an empty registry.
StatisticsPartition ==
    /\ conferidosCorretos(materials) + conferidosOutroSetor(materials) + naoConferidos(materials)
          = totalMaterials(materials)
    /\ percentualConferido(materials) \in 0..100
    /\ materials = <<>> => percentualConferido(materials) = 0

\* C30: in every state the three counters of the Dashboard add up to
\* totalMaterials and percentualConferido is a whole number from 0 to 100 (0
\* for an empty registry); a scan of a material that is nao_conferido lowers
\* naoConferidos by exactly one, and no scan raises it.
C30_StatisticsPartitionAndScans ==
    /\ []StatisticsPartition
    /\ [][last'.op = "conferir" =>
             /\ naoConferidos(materials') <= naoConferidos(materials)
             /\ LET i == findByQrCode(materials, last'.qrCode)
                IN  (i # 0 /\ materials[i].status = "nao_conferido") =>
                       naoConferidos(materials') = naoConferidos(materials) - 1]_vars

\* The registry was emptied.
RegistryEmpty == materials = <<>> /\ ops > 0

====
